---- MODULE Spec2Model ----
(***************************************************************************)
(* Titweng cattle registry: nose-print registration, duplicate rejection   *)
(* and verification (routes/admin.py, routes/mobile.py, models.py).        *)
(*                                                                         *)
(* The handlers are `async def` coroutines on one event loop: the database *)
(* calls are synchronous, so another request can run only at an `await`.   *)
(* Each action below is the block of a handler between two awaits.         *)
(*                                                                         *)
(* Similarities are in hundredths (93 stands for 0.93).  The vectors have  *)
(* 5 components (standing for 256) and Euclidean norm 10, so the cosine    *)
(* similarity in hundredths is the dot product.                            *)
(***************************************************************************)
EXTENDS Integers, Sequences, FiniteSets, TLC

VARIABLES owners, cows, embeddings, nextOwner, nextCow, nextEmb, reg, started, ver, vres,
          logs, deleting

vars == <<owners, cows, embeddings, nextOwner, nextCow, nextEmb, reg, started, ver, vres,
          logs, deleting>>

storeVars == <<owners, cows, embeddings, nextOwner, nextCow, nextEmb>>

(* ------------------------------ bounds ------------------------------- *)

\* Registration requests submitted in one behaviour.
MaxRequests == 2

\* Files a verification request may carry (the handlers read files[:2]).
MaxFiles == 3

\* Rows of verification_logs written in one behaviour.
MaxLogs == 2

\* Owner rows created in one behaviour in which ownership is transferred.
MaxOwners == 4

\* Registration requests in flight at once (tasks on the event loop); a new
\* request takes the lowest free slot.
Procs == {1, 2}

(* ------------------------- program constants ------------------------- *)

\* A nullable integer column holding NULL (ids start at 1).
NULL == 0

\* REGISTRATION_CONFIG["min_images"]
MIN_IMAGES == 3

DUPLICATE_THRESHOLD == 93

VERIFICATION_THRESHOLD == 85

ADMIN_THRESHOLD == 85

LIVE_THRESHOLD == 85

\* `best_similarity - high_matches[1].similarity > 0.05`
AMBIGUITY_GAP == 5

\* mobile: confidence_level HIGH above 0.92
MOBILE_HIGH == 92

\* admin: verified "yes" above 0.90
ADMIN_YES == 90

REQUIRED_ANGLES == <<"image1", "image2", "image3">>

\* datetime.utcnow(): a timestamp, never NULL.
UtcNow == 1

\* The `age` form field; NULL when the field is absent (or 0, which is falsy).
Ages == {NULL, 1, 2}

(* ------------------------- images and vectors ------------------------ *)

\* What the Siamese network (eval mode, deterministic) returns per image.
\* a1..a3: one cow; b1..b3: another cow; n: a retake of a1 (0.99);
\* d: an unrelated picture; q1..q3: probe pictures.
Vec ==
  [ a1 |-> <<7, 5, 4, 3, 1>>,  a2 |-> <<5, 8, 3, -1, 1>>, a3 |-> <<8, 4, 4, -2, 0>>,
    b1 |-> <<7, 5, 1, 4, 3>>,  b2 |-> <<7, 4, -3, 1, 5>>, b3 |-> <<7, 7, -1, 0, 1>>,
    n  |-> <<7, 4, 5, 3, 1>>,  d  |-> <<1, 5, 4, 3, -7>>,
    q1 |-> <<4, 8, 0, -2, 4>>, q2 |-> <<5, 7, 4, 1, 3>>,  q3 |-> <<7, 4, 1, 5, -3>>,
    t  |-> <<8, 3, 3, 3, 3>>,
    s  |-> <<7, 5, 4, 3>>,     z  |-> <<0, 0, 0, 0, 0>> ]

\* The nose_print_files lists a registration request may carry.
PhotoSets ==
  { <<"a1", "a2", "a3">>, <<"b1", "b2", "b3">>, <<"d", "n", "a3">>, <<"a1", "a2">> }

\* Requests with an image for which the extractor yields a vector of the wrong
\* length (s) or the zero vector (z).
OddPhotoSets == { <<"s", "a2", "a3">>, <<"z", "a2", "a3">> }

\* The files a verification request may carry.
Probes == {"t", "q1", "q2", "q3"}

\* The random 4-character code of a tag.
TagCodes == {"A1B2"}

Dot(u, v) == u[1]*v[1] + u[2]*v[2] + u[3]*v[3] + u[4]*v[4] + u[5]*v[5]

\* 1 - (e.embedding <=> :query_emb): pgvector's cosine distance, turned into
\* a similarity.  |u| = |v| = 10, so 100 * cos(u, v) = Dot(u, v).  With a
\* zero vector the database yields NaN, which like 0 is above no threshold.
Similarity(u, v) == Dot(u, v)

\* `<=>` raises "different vector dimensions" on a row of another length.
DimensionError(q, rows) == \E e \in rows : Len(e.embedding) # Len(q)

\* The vector the Siamese model computes for an image.
ExtractEmbedding(img) == Vec[img]

\* Embedding.embedding is Vector(256): the column takes no other length.
Dim == 5

None == <<>>

\* Variant: a client that answers a failure with a vector derived from a hash
\* of the image (MLModelClient._generate_fallback_embedding).
MlClientExtract_Fallback(img, ok) ==
  IF ok THEN ExtractEmbedding(img) ELSE <<1, -7, 5, 3, 4>>

\* ml_client.extract_embedding of ml_client_local: the vector, or None when
\* the model is not loaded or the image cannot be processed (ok = FALSE).
MlClientExtract(img, ok) ==
  IF ok THEN ExtractEmbedding(img) ELSE None

\* main.extract_embedding: the vector, or HTTPException 503 when the client
\* returned None or an empty array.
MainExtractEmbedding(img, ok) ==
  LET embedding == MlClientExtract(img, ok)
  IN  IF embedding # None /\ Len(embedding) > 0
      THEN [ raised |-> FALSE, embedding |-> embedding ]
      ELSE [ raised |-> TRUE, embedding |-> None ]

\* ml_client_local.detect_nose: a constant dict, never None.
DetectNose(img) == TRUE

(* ------------------------------ queries ------------------------------ *)

\* FROM embeddings e JOIN cows c ON e.cow_id = c.cow_id, with the similarity
\* to the query vector.  embedding_id keeps equal rows apart (SQL returns a bag).
JoinedRows(q) ==
  { [ embedding_id |-> e.embedding_id, cow_id |-> c.cow_id, cow_tag |-> c.cow_tag,
      similarity |-> Similarity(e.embedding, q) ]
    : <<e, c>> \in { p \in embeddings \X cows : p[1].cow_id = p[2].cow_id } }

\* ... JOIN owners o ON c.owner_id = o.owner_id: the rows of the duplicate
\* check of the registration.
OwnedRows(q) ==
  { r \in JoinedRows(q) : \E c \in cows : c.cow_id = r.cow_id /\ c.owner_id \in owners }

\* The embedding rows a query joined with cows reads.
JoinedEmbeddings == { e \in embeddings : \E c \in cows : c.cow_id = e.cow_id }

\* FROM embeddings (no join): the live-camera query.
RawRows(q) ==
  { [ embedding_id |-> e.embedding_id, cow_id |-> e.cow_id, cow_tag |-> "",
      similarity |-> Similarity(e.embedding, q) ] : e \in embeddings }

\* ORDER BY e.embedding <=> :query_emb: most similar first; rows at the same
\* distance come in any order (no second sort key).
RECURSIVE Ordered(_)
Ordered(rows) ==
  IF rows = {} THEN { <<>> }
  ELSE LET top == { r \in rows : \A s \in rows : s.similarity <= r.similarity }
       IN  UNION { { <<r>> \o rest : rest \in Ordered(rows \ {r}) } : r \in top }

Take(s, k) == IF Len(s) <= k THEN s ELSE SubSeq(s, 1, k)

(* ---------------------------- registration --------------------------- *)

IdleReg ==
  [ pc |-> "idle", photos |-> <<>>, owner_id |-> NULL, cow_tag |-> <<>>, idx |-> 0,
    data |-> <<>>, cow_id |-> NULL, error |-> "" ]

Active(r) == reg[r].pc \in {"check", "extract", "facial"}

\* The request ends with an HTTP error: the session is closed, which rolls
\* back what was not committed.
Fail(r, why) == reg' = [reg EXCEPT ![r].pc = "error", ![r].error = why, ![r].idx = 0,
                                   ![r].data = <<>>]

\* Variant: the tag carries no owner id and is not looked up in the store.
FreeTags_Unchecked(owner_id) == { <<NULL, code>> : code \in TagCodes }

\* generate_secure_cow_tag: TW-year-owner-code, retried until no cow holds it.
FreeTags(owner_id) ==
  { t \in { <<owner_id, code>> : code \in TagCodes } : \A c \in cows : c.cow_tag # t }

\* Lines 49-66: owner row committed, tag generated, image count validated.
RegStart(r, photos) ==
  /\ ~Active(r)
  /\ \A p \in Procs : p < r => Active(p)
  /\ started < MaxRequests
  /\ started' = started + 1
  /\ owners' = owners \cup {nextOwner}
  /\ nextOwner' = nextOwner + 1
  /\ \E tag \in FreeTags(nextOwner) :
       IF Len(photos) # MIN_IMAGES
       THEN reg' = [reg EXCEPT ![r] = [IdleReg EXCEPT !.pc = "error", !.error = "image_count",
                                         !.photos = photos, !.owner_id = nextOwner,
                                         !.cow_tag = tag]]
       ELSE reg' = [reg EXCEPT ![r] = [IdleReg EXCEPT !.pc = "check", !.idx = 1,
                                         !.photos = photos, !.owner_id = nextOwner,
                                         !.cow_tag = tag]]
  /\ UNCHANGED <<cows, embeddings, nextCow, nextEmb, ver, vres, logs, deleting>>

\* Variant: a query that returns no row counts as a duplicate.
IsDuplicate_NoRows(top_matches) ==
  \/ top_matches = <<>>
  \/ top_matches[1].similarity > DUPLICATE_THRESHOLD

\* Variant: a top match of exactly 0.93 already counts as a duplicate.
IsDuplicate_AtLeast(top_matches) ==
  top_matches # <<>> /\ top_matches[1].similarity >= DUPLICATE_THRESHOLD

\* top_matches[0].similarity > DUPLICATE_THRESHOLD, over the LIMIT 5 result.
IsDuplicate(top_matches) ==
  /\ top_matches # <<>>
  /\ top_matches[1].similarity > DUPLICATE_THRESHOLD

\* Variant: a duplicate is only rejected on the last image of the request.
RegCheck_RejectAtEnd(r) ==
  /\ reg[r].pc = "check"
  /\ LET img == reg[r].photos[reg[r].idx]
     IN  IF ~DetectNose(img)
         THEN Fail(r, "no_nose")
         ELSE \E ok \in BOOLEAN :
                LET out == MainExtractEmbedding(img, ok)
                IN  IF out.raised
                    THEN Fail(r, "extraction")
                    ELSE IF DimensionError(out.embedding, JoinedEmbeddings)
                    THEN Fail(r, "query")
                    ELSE \E all \in Ordered(OwnedRows(out.embedding)) :
                           LET top_matches == Take(all, 5)
                           IN  IF IsDuplicate(top_matches) /\ reg[r].idx = Len(reg[r].photos)
                               THEN Fail(r, "duplicate")
                               ELSE IF reg[r].idx < Len(reg[r].photos)
                                    THEN reg' = [reg EXCEPT ![r].idx = @ + 1]
                                    ELSE reg' = [reg EXCEPT ![r].pc = "extract",
                                                            ![r].idx = 1]
  /\ UNCHANGED <<storeVars, started, deleting, ver, vres, logs>>

\* Lines 73-119, one iteration: detect, extract, query the 5 nearest, reject
\* a duplicate.
RegCheck(r) ==
  /\ reg[r].pc = "check"
  /\ LET img == reg[r].photos[reg[r].idx]
     IN  IF ~DetectNose(img)
         THEN Fail(r, "no_nose")
         ELSE \E ok \in BOOLEAN :
                LET out == MainExtractEmbedding(img, ok)
                IN  IF out.raised
                    THEN Fail(r, "extraction")
                    ELSE IF DimensionError(out.embedding, JoinedEmbeddings)
                    THEN Fail(r, "query")
                    ELSE \E all \in Ordered(OwnedRows(out.embedding)) :
                           LET top_matches == Take(all, 5)
                           IN  IF IsDuplicate(top_matches)
                               THEN Fail(r, "duplicate")
                               ELSE IF reg[r].idx < Len(reg[r].photos)
                                    THEN reg' = [reg EXCEPT ![r].idx = @ + 1]
                                    ELSE reg' = [reg EXCEPT ![r].pc = "extract",
                                                            ![r].idx = 1]
  /\ UNCHANGED <<storeVars, started, deleting, ver, vres, logs>>

\* Lines 146-156: the cow row, committed on its own.  cow_tag is a unique
\* column: the insert of a tag that a cow holds fails.
InsertCow(r) ==
  /\ \A c \in cows : c.cow_tag # reg[r].cow_tag
  /\ cows' = cows \cup { [ cow_id |-> nextCow, cow_tag |-> reg[r].cow_tag,
                           owner_id |-> reg[r].owner_id, age |-> 1,
                           ownership_status |-> "original",
                           previous_owner_id |-> NULL, transfer_date |-> NULL ] }
  /\ nextCow' = nextCow + 1

\* Lines 125-156, one iteration: extract again and keep the vector; after the
\* last image the cow row is inserted and committed.
RegExtract(r) ==
  /\ reg[r].pc = "extract"
  /\ \E ok \in BOOLEAN :
     LET img == reg[r].photos[reg[r].idx]
         out == MainExtractEmbedding(img, ok)
         entry == [ embedding |-> out.embedding,
                    angle |-> REQUIRED_ANGLES[reg[r].idx],
                    is_primary |-> IF reg[r].idx = 1 THEN "yes" ELSE "no" ]
     IN  IF out.raised
         THEN /\ Fail(r, "extraction")
              /\ UNCHANGED <<cows, nextCow>>
         ELSE
         \/ /\ reg[r].idx < Len(reg[r].photos)
            /\ reg' = [reg EXCEPT ![r].idx = @ + 1, ![r].data = Append(@, entry)]
            /\ UNCHANGED <<cows, nextCow>>
         \/ /\ reg[r].idx = Len(reg[r].photos)
            /\ \/ /\ InsertCow(r)
                  /\ reg' = [reg EXCEPT ![r].pc = "facial", ![r].idx = 0,
                                        ![r].data = Append(@, entry),
                                        ![r].cow_id = nextCow]
               \/ /\ Fail(r, "cow_insert")
                  /\ UNCHANGED <<cows, nextCow>>
  /\ UNCHANGED <<owners, embeddings, nextOwner, nextEmb, started, deleting, ver, vres, logs>>

\* Variant: is_primary is not passed on, so every row gets the default "no".
NewEmbeddings_DefaultPrimary(cow_id, data, first) ==
  { [ embedding_id |-> first + i - 1, cow_id |-> cow_id, embedding |-> data[i].embedding,
      image_angle |-> data[i].angle, is_primary |-> "no" ]
    : i \in 1..Len(data) }

\* Lines 167-178: the embedding rows of embeddings_data, in one commit.
NewEmbeddings(cow_id, data, first) ==
  { [ embedding_id |-> first + i - 1, cow_id |-> cow_id, embedding |-> data[i].embedding,
      image_angle |-> data[i].angle, is_primary |-> data[i].is_primary ]
    : i \in 1..Len(data) }

\* Variant: every embedding row is committed on its own, so a failing insert
\* leaves the rows before it.
RegFinish_CommitEachRow(r) ==
  /\ reg[r].pc = "facial"
  /\ IF \A c \in cows : c.cow_id # reg[r].cow_id
     THEN /\ Fail(r, "stale_cow")
          /\ UNCHANGED <<embeddings, nextEmb>>
     ELSE \/ \E k \in 0..(Len(reg[r].data) - 1) :
               /\ Fail(r, "embedding_insert")
               /\ embeddings' = embeddings \cup
                     NewEmbeddings(reg[r].cow_id, SubSeq(reg[r].data, 1, k), nextEmb)
               /\ nextEmb' = nextEmb + k
          \/ /\ \A i \in 1..Len(reg[r].data) : Len(reg[r].data[i].embedding) = Dim
             /\ embeddings' = embeddings \cup
                                NewEmbeddings(reg[r].cow_id, reg[r].data, nextEmb)
             /\ nextEmb' = nextEmb + Len(reg[r].data)
             /\ \/ Fail(r, "qr_pdf")
                \/ reg' = [reg EXCEPT ![r].pc = "done", ![r].data = <<>>]
  /\ UNCHANGED <<owners, cows, nextOwner, nextCow, started, deleting, ver, vres, logs>>

\* Lines 160-238, after the await on the facial image: the facial path, the
\* embeddings, then QR code and receipt.  The insert fails on a storage error
\* and, always, on a vector that is not of the column's length.
RegFinish(r) ==
  /\ reg[r].pc = "facial"
  /\ IF \A c \in cows : c.cow_id # reg[r].cow_id
     THEN \* the cow row was deleted meanwhile: the flush fails
          /\ Fail(r, "stale_cow")
          /\ UNCHANGED <<embeddings, nextEmb>>
     ELSE \/ /\ Fail(r, "embedding_insert")
             /\ UNCHANGED <<embeddings, nextEmb>>
          \/ /\ \A i \in 1..Len(reg[r].data) : Len(reg[r].data[i].embedding) = Dim
             /\ embeddings' = embeddings \cup
                                NewEmbeddings(reg[r].cow_id, reg[r].data, nextEmb)
             /\ nextEmb' = nextEmb + Len(reg[r].data)
             /\ \/ Fail(r, "qr_pdf")
                \/ reg' = [reg EXCEPT ![r].pc = "done", ![r].data = <<>>]
  /\ UNCHANGED <<owners, cows, nextOwner, nextCow, started, deleting, ver, vres, logs>>

(* ------------------------------ deletion ----------------------------- *)

\* admin_delete_cow: the verification logs of the cow, the cow row and its
\* owner row are deleted.  The
\* relationship Cow.embeddings has no delete cascade and no passive_deletes,
\* so the session sets cow_id of the cow's embeddings to NULL before the
\* DELETE (the ON DELETE CASCADE of the column finds nothing left).
DeleteCowRow(c) ==
  /\ cows' = cows \ {c}
  /\ embeddings' = { IF e.cow_id = c.cow_id THEN [e EXCEPT !.cow_id = NULL] ELSE e
                     : e \in embeddings }
  /\ owners' = owners \ {c.owner_id}
  /\ logs' = SelectSeq(logs, LAMBDA l : l.cow_id # c.cow_id)

AdminDeleteCow(cow_id) ==
  /\ \E c \in cows :
       /\ c.cow_id = cow_id
       /\ DeleteCowRow(c)
  /\ UNCHANGED <<nextOwner, nextCow, nextEmb, reg, started, deleting, ver, vres>>

\* admin_delete_cow_by_tag: the same, the cow looked up by its tag.
AdminDeleteCowByTag(cow_tag) ==
  /\ \E c \in cows :
       /\ c.cow_tag = cow_tag
       /\ DeleteCowRow(c)
  /\ UNCHANGED <<nextOwner, nextCow, nextEmb, reg, started, deleting, ver, vres>>

\* The delete handlers are `def` endpoints: they run in a worker thread, in
\* a transaction of their own (READ COMMITTED), beside the event loop.  The
\* two actions below are admin_delete_cow at the grain of its statements;
\* AdminDeleteCow above is the two of them with no commit of another request
\* in between.
NoDelete == [ cow_id |-> NULL, nlogs |-> 0 ]

\* Lines 420-429: the cow is read and the DELETE on verification_logs is
\* executed; uncommitted, it removes the rows of the cow that exist now.
AdminDeleteCowLogs(cow_id) ==
  /\ deleting = NoDelete
  /\ \E c \in cows : c.cow_id = cow_id
  /\ deleting' = [ cow_id |-> cow_id, nlogs |-> Len(logs) ]
  /\ UNCHANGED <<storeVars, reg, started, ver, vres, logs>>

\* Lines 446-453: db.delete(cow), db.delete(owner), db.commit().  The flush
\* loads Cow.verification_logs (no delete cascade, nullable cow_id): the rows
\* committed for the cow since the DELETE get cow_id NULL; a row committed
\* after that load makes the DELETE of the cow fail on the foreign key, and
\* the transaction is rolled back.
AdminDeleteCowCommit ==
  /\ deleting # NoDelete
  /\ deleting' = NoDelete
  /\ \E c \in cows :
       /\ c.cow_id = deleting.cow_id
       /\ LET late == { i \in (deleting.nlogs + 1)..Len(logs) : logs[i].cow_id = c.cow_id }
              nulled == [ i \in 1..Len(logs) |->
                            IF i \in late THEN [logs[i] EXCEPT !.cow_id = NULL]
                                          ELSE logs[i] ]
          IN  \/ /\ cows' = cows \ {c}
                 /\ embeddings' = { IF e.cow_id = c.cow_id
                                    THEN [e EXCEPT !.cow_id = NULL] ELSE e
                                    : e \in embeddings }
                 /\ owners' = owners \ {c.owner_id}
                 /\ logs' = SelectSeq(nulled, LAMBDA l : l.cow_id # c.cow_id)
              \/ /\ late # {}
                 /\ UNCHANGED <<owners, cows, embeddings, logs>>
  /\ UNCHANGED <<nextOwner, nextCow, nextEmb, reg, started, ver, vres>>

(* ----------------------- transfer and update ------------------------ *)

\* `if age: cow.age = age`
WithAge(c, age) == IF age # NULL THEN [c EXCEPT !.age = age] ELSE c

\* Variant: the previous owner, once recorded, is kept by later transfers.
AdminTransferOwnership_KeepsFirstOwner(cow_id, age) ==
  /\ nextOwner <= MaxOwners
  /\ \E c \in cows :
       /\ c.cow_id = cow_id
       /\ owners' = owners \cup {nextOwner}
       /\ nextOwner' = nextOwner + 1
       /\ cows' = (cows \ {c}) \cup
                    { WithAge([c EXCEPT !.previous_owner_id =
                                          IF @ = NULL THEN c.owner_id ELSE @,
                                        !.owner_id = nextOwner,
                                        !.ownership_status = "transferred",
                                        !.transfer_date = UtcNow], age) }
  /\ UNCHANGED <<embeddings, nextCow, nextEmb, reg, started, deleting, ver, vres, logs>>

\* admin_transfer_ownership: a new owner row is committed, then the cow row
\* is pointed at it; the old owner row stays.  An unknown cow_id is a 404.
AdminTransferOwnership(cow_id, age) ==
  /\ nextOwner <= MaxOwners
  /\ \E c \in cows :
       /\ c.cow_id = cow_id
       /\ owners' = owners \cup {nextOwner}
       /\ nextOwner' = nextOwner + 1
       /\ cows' = (cows \ {c}) \cup
                    { WithAge([c EXCEPT !.previous_owner_id = c.owner_id,
                                        !.owner_id = nextOwner,
                                        !.ownership_status = "transferred",
                                        !.transfer_date = UtcNow], age) }
  /\ UNCHANGED <<embeddings, nextCow, nextEmb, reg, started, deleting, ver, vres, logs>>

\* admin_update_cow_details: breed, colour and age of the cow row.
AdminUpdateCowDetails(cow_id, age) ==
  /\ \E c \in cows :
       /\ c.cow_id = cow_id
       /\ cows' = (cows \ {c}) \cup { WithAge(c, age) }
  /\ UNCHANGED <<owners, embeddings, nextOwner, nextCow, nextEmb, reg, started, deleting, ver,
                 vres, logs>>

(* ---------------------------- verification --------------------------- *)

NoResult ==
  [ route |-> "none", probe |-> "", status |-> "", confidence |-> "", cow_found |-> FALSE,
    cow_id |-> NULL, similarity |-> 0, candidates |-> <<>> ]

\* The request ends with an HTTP error (503 from extract_embedding, or 500).
ErrorResult(route, probe) ==
  [NoResult EXCEPT !.route = route, !.status = "error"]

SelectHigh(all, threshold) == SelectSeq(all, LAMBDA r : r.similarity > threshold)

CowIds(rows) == { rows[i].cow_id : i \in 1..Len(rows) }

\* "ambiguous_matches": [{cow_tag, similarity} for r in high_matches[:3]
\*                       if r.cow_id in unique_cows]
AmbiguousMatches(high_matches, unique_cows) ==
  LET first3 == Take(high_matches, 3)
      kept == SelectSeq(first3, LAMBDA r : r.cow_id \in unique_cows)
  IN  [ i \in 1..Len(kept) |-> [ cow_tag |-> kept[i].cow_tag,
                                 similarity |-> kept[i].similarity ] ]

\* Variant: the ambiguity check is only entered with more than two rows above
\* the threshold.
MobileDecision_ThreeRows(probe, all_results) ==
  LET best_similarity == IF all_results = <<>> THEN 0 ELSE all_results[1].similarity
      best_match == IF all_results = <<>> THEN NULL ELSE all_results[1].cow_id
      high_matches == SelectHigh(all_results, VERIFICATION_THRESHOLD)
      unique_cows == CowIds(high_matches)
      base == [NoResult EXCEPT !.route = "mobile", !.probe = probe,
                               !.similarity = best_similarity]
  IN  IF best_similarity > VERIFICATION_THRESHOLD
      THEN IF /\ Len(high_matches) > 2
              /\ Cardinality(unique_cows) > 1
              /\ ~(best_similarity - high_matches[2].similarity > AMBIGUITY_GAP)
           THEN [base EXCEPT !.status = "AMBIGUOUS",
                             !.candidates = AmbiguousMatches(high_matches, unique_cows)]
           ELSE [base EXCEPT !.status = "VERIFIED",
                             !.confidence = IF best_similarity > MOBILE_HIGH
                                            THEN "HIGH" ELSE "MEDIUM",
                             !.cow_found = TRUE, !.cow_id = best_match]
      ELSE [base EXCEPT !.status = "NOT_FOUND", !.confidence = "LOW"]

\* Variant: with no row the best similarity defaults to the threshold.
MobileDecision_NoRowsAtThreshold(probe, all_results) ==
  LET best_similarity == IF all_results = <<>> THEN VERIFICATION_THRESHOLD ELSE all_results[1].similarity
      best_match == IF all_results = <<>> THEN NULL ELSE all_results[1].cow_id
      high_matches == SelectHigh(all_results, VERIFICATION_THRESHOLD)
      unique_cows == CowIds(high_matches)
      base == [NoResult EXCEPT !.route = "mobile", !.probe = probe,
                               !.similarity = best_similarity]
  IN  IF best_similarity > VERIFICATION_THRESHOLD
      THEN IF /\ Len(high_matches) > 1
              /\ Cardinality(unique_cows) > 1
              /\ ~(best_similarity - high_matches[2].similarity > AMBIGUITY_GAP)
           THEN [base EXCEPT !.status = "AMBIGUOUS",
                             !.candidates = AmbiguousMatches(high_matches, unique_cows)]
           ELSE [base EXCEPT !.status = "VERIFIED",
                             !.confidence = IF best_similarity > MOBILE_HIGH
                                            THEN "HIGH" ELSE "MEDIUM",
                             !.cow_found = TRUE, !.cow_id = best_match]
      ELSE [base EXCEPT !.status = "NOT_FOUND", !.confidence = "LOW"]

\* mobile.py lines 64-163: the decision of verify_cow_by_nose on the ordered
\* rows of one file.
MobileDecision(probe, all_results) ==
  LET best_similarity == IF all_results = <<>> THEN 0 ELSE all_results[1].similarity
      best_match == IF all_results = <<>> THEN NULL ELSE all_results[1].cow_id
      high_matches == SelectHigh(all_results, VERIFICATION_THRESHOLD)
      unique_cows == CowIds(high_matches)
      base == [NoResult EXCEPT !.route = "mobile", !.probe = probe,
                               !.similarity = best_similarity]
  IN  IF best_similarity > VERIFICATION_THRESHOLD
      THEN IF /\ Len(high_matches) > 1
              /\ Cardinality(unique_cows) > 1
              /\ ~(best_similarity - high_matches[2].similarity > AMBIGUITY_GAP)
           THEN [base EXCEPT !.status = "AMBIGUOUS",
                             !.candidates = AmbiguousMatches(high_matches, unique_cows)]
           ELSE [base EXCEPT !.status = "VERIFIED",
                             !.confidence = IF best_similarity > MOBILE_HIGH
                                            THEN "HIGH" ELSE "MEDIUM",
                             !.cow_found = TRUE, !.cow_id = best_match]
      ELSE [base EXCEPT !.status = "NOT_FOUND", !.confidence = "LOW"]

\* Variant: a best similarity of exactly 0.90 is already reported "yes".
AdminDecision_AtLeast(probe, all_results) ==
  LET best_similarity == IF all_results = <<>> THEN 0 ELSE all_results[1].similarity
      best_cow_id == IF all_results = <<>> THEN NULL ELSE all_results[1].cow_id
      base == [NoResult EXCEPT !.route = "admin", !.probe = probe,
                               !.similarity = best_similarity]
  IN  IF best_similarity > ADMIN_THRESHOLD
      THEN [base EXCEPT !.status = IF best_similarity >= ADMIN_YES THEN "yes" ELSE "partial",
                        !.cow_found = TRUE, !.cow_id = best_cow_id]
      ELSE [base EXCEPT !.status = "no"]

\* admin.py lines 577-636: the decision of admin_verify_cow_by_nose.
AdminDecision(probe, all_results) ==
  LET best_similarity == IF all_results = <<>> THEN 0 ELSE all_results[1].similarity
      best_cow_id == IF all_results = <<>> THEN NULL ELSE all_results[1].cow_id
      base == [NoResult EXCEPT !.route = "admin", !.probe = probe,
                               !.similarity = best_similarity]
  IN  IF best_similarity > ADMIN_THRESHOLD
      THEN [base EXCEPT !.status = IF best_similarity > ADMIN_YES THEN "yes" ELSE "partial",
                        !.cow_found = TRUE, !.cow_id = best_cow_id]
      ELSE [base EXCEPT !.status = "no"]

\* mobile.py lines 361-403: the decision of verify_cow_live_camera on the
\* LIMIT 1 row.  The row of an embedding whose cow_id is NULL finds no cow,
\* and `cow.owner` raises.
LiveDecision(probe, rows) ==
  LET best_similarity == IF rows = <<>> THEN 0 ELSE rows[1].similarity
      best_cow_id == IF rows = <<>> THEN NULL ELSE rows[1].cow_id
      base == [NoResult EXCEPT !.route = "live", !.probe = probe,
                               !.similarity = best_similarity]
  IN  IF best_similarity > LIVE_THRESHOLD
      THEN IF \E c \in cows : c.cow_id = best_cow_id
           THEN [base EXCEPT !.status = "verified", !.cow_found = TRUE,
                             !.cow_id = best_cow_id]
           ELSE ErrorResult("live", probe)
      ELSE [base EXCEPT !.status = "not_found"]

IdleVer == [ route |-> "none", left |-> 0 ]

Min(a, b) == IF a <= b THEN a ELSE b

\* verify_cow_by_nose / admin_verify_cow_by_nose are called with nfiles files
\* and loop over files[:2].
VerifyBegin(route, nfiles) ==
  /\ ver.route = "none"
  /\ route = "admin" => Len(logs) + Min(nfiles, 2) <= MaxLogs
  /\ ver' = [ route |-> route, left |-> Min(nfiles, 2) ]
  /\ vres' = NoResult
  /\ UNCHANGED <<storeVars, reg, started, deleting, logs>>

\* verify_cow_by_nose, one iteration of the loop (lines 35-165) on the next
\* file of the request.
MobileVerifyFile(probe) ==
  /\ ver.route = "mobile"
  /\ ver.left > 0
  /\ IF ~DetectNose(probe)
     THEN /\ vres' = vres
          /\ ver' = [ver EXCEPT !.left = @ - 1]
     ELSE \E ok \in BOOLEAN :
            LET out == MainExtractEmbedding(probe, ok)
            IN  IF out.raised \/ DimensionError(out.embedding, JoinedEmbeddings)
                THEN /\ vres' = ErrorResult("mobile", probe)
                     /\ ver' = [ver EXCEPT !.left = 0]
                ELSE /\ \E all \in Ordered(JoinedRows(out.embedding)) :
                          vres' = MobileDecision(probe, all)
                     /\ ver' = [ver EXCEPT !.left = @ - 1]
  /\ UNCHANGED <<storeVars, reg, started, deleting, logs>>

\* admin.py lines 600-610: the VerificationLog row of a matched cow.
AdminLog(res) ==
  [ cow_id |-> res.cow_id, verification_image |-> res.probe,
    similarity_score |-> res.similarity, verified |-> res.status ]

\* admin_verify_cow_by_nose, one iteration of the loop (lines 548-638); the
\* log row of a matched cow is committed in the iteration.
AdminVerifyFile(probe) ==
  /\ ver.route = "admin"
  /\ ver.left > 0
  /\ IF ~DetectNose(probe)
     THEN /\ vres' = vres
          /\ ver' = [ver EXCEPT !.left = @ - 1]
          /\ logs' = logs
     ELSE \E ok \in BOOLEAN :
            LET out == MainExtractEmbedding(probe, ok)
            IN  IF out.raised \/ DimensionError(out.embedding, JoinedEmbeddings)
                THEN /\ vres' = ErrorResult("admin", probe)
                     /\ ver' = [ver EXCEPT !.left = 0]
                     /\ logs' = logs
                ELSE /\ \E all \in Ordered(JoinedRows(out.embedding)) :
                          LET res == AdminDecision(probe, all)
                          IN  /\ vres' = res
                              /\ logs' = IF res.cow_found
                                         THEN Append(logs, AdminLog(res)) ELSE logs
                     /\ ver' = [ver EXCEPT !.left = @ - 1]
  /\ UNCHANGED <<storeVars, reg, started, deleting>>

\* Variant: a live verification that found a cow keeps the vector of the
\* probe as one more embedding of that cow.
LiveVerify_StoresProbe(probe) ==
  /\ ver.route = "none"
  /\ ver' = [ route |-> "live", left |-> 0 ]
  /\ IF ~DetectNose(probe)
     THEN vres' = NoResult /\ UNCHANGED <<embeddings, nextEmb>>
     ELSE \E ok \in BOOLEAN :
            LET out == MainExtractEmbedding(probe, ok)
            IN  IF out.raised \/ DimensionError(out.embedding, embeddings)
                THEN vres' = ErrorResult("live", probe) /\ UNCHANGED <<embeddings, nextEmb>>
                ELSE \E all \in Ordered(RawRows(out.embedding)) :
                       LET res == LiveDecision(probe, Take(all, 1))
                       IN  /\ vres' = res
                           /\ IF res.cow_found
                              THEN /\ embeddings' = embeddings \cup
                                        { [ embedding_id |-> nextEmb, cow_id |-> res.cow_id,
                                            embedding |-> out.embedding,
                                            image_angle |-> "live", is_primary |-> "no" ] }
                                   /\ nextEmb' = nextEmb + 1
                              ELSE UNCHANGED <<embeddings, nextEmb>>
  /\ UNCHANGED <<owners, cows, nextOwner, nextCow, reg, started, deleting, logs>>

\* verify_cow_live_camera (lines 324-403), one file.
LiveVerify(probe) ==
  /\ ver.route = "none"
  /\ ver' = [ route |-> "live", left |-> 0 ]
  /\ IF ~DetectNose(probe)
     THEN vres' = NoResult
     ELSE \E ok \in BOOLEAN :
            LET out == MainExtractEmbedding(probe, ok)
            IN  IF out.raised \/ DimensionError(out.embedding, embeddings)
                THEN vres' = ErrorResult("live", probe)
                ELSE \E all \in Ordered(RawRows(out.embedding)) :
                       vres' = LiveDecision(probe, Take(all, 1))
  /\ UNCHANGED <<storeVars, reg, started, deleting, logs>>

\* The tags a tag verification is called with: those of the cows and one
\* that no cow holds.
TagInputs == { c.cow_tag : c \in cows } \cup { <<0, "A1B2">> }

\* mobile verify_cow_by_tag (mobile.py lines 172-213): a lookup, no write.
MobileVerifyTag(cow_tag) ==
  /\ ver.route = "none"
  /\ ver' = [ route |-> "tag", left |-> 0 ]
  /\ IF \E c \in cows : c.cow_tag = cow_tag
     THEN \E c \in cows :
            /\ c.cow_tag = cow_tag
            /\ vres' = [NoResult EXCEPT !.route = "tag", !.status = "found",
                                        !.cow_found = TRUE, !.cow_id = c.cow_id]
     ELSE vres' = [NoResult EXCEPT !.route = "tag", !.status = "not_found"]
  /\ UNCHANGED <<storeVars, reg, started, deleting, logs>>

\* admin_verify_cow_by_tag (admin.py lines 487-531): 404 for an unknown tag,
\* else a log row with similarity 1.0 and verified "yes".
AdminVerifyTag(cow_tag) ==
  /\ Len(logs) < MaxLogs
  /\ IF \E c \in cows : c.cow_tag = cow_tag
     THEN \E c \in cows :
            /\ c.cow_tag = cow_tag
            /\ logs' = Append(logs, [ cow_id |-> c.cow_id,
                                      verification_image |-> "tag_verification",
                                      similarity_score |-> 100, verified |-> "yes" ])
     ELSE logs' = logs
  /\ UNCHANGED <<storeVars, reg, started, deleting, ver, vres>>

\* The response is returned to the client.
VerifyReturn ==
  /\ ver.route # "none"
  /\ ver.left = 0
  /\ ver' = IdleVer
  /\ vres' = NoResult
  /\ UNCHANGED <<storeVars, reg, started, deleting, logs>>

(* --------------------------- specification --------------------------- *)

Init ==
  /\ owners = {}
  /\ cows = {}
  /\ embeddings = {}
  /\ nextOwner = 1
  /\ nextCow = 1
  /\ nextEmb = 1
  /\ reg = [r \in Procs |-> IdleReg]
  /\ started = 0
  /\ ver = IdleVer
  /\ vres = NoResult
  /\ logs = <<>>
  /\ deleting = NoDelete

\* Concurrent registrations, deletions, and the verifications of the mobile
\* application.
Next ==
  \/ \E r \in Procs, photos \in PhotoSets : RegStart(r, photos)
  \/ \E r \in Procs : RegCheck(r)
  \/ \E r \in Procs : RegExtract(r)
  \/ \E r \in Procs : RegFinish(r)
  \/ \E c \in cows : AdminDeleteCow(c.cow_id)
  \/ \E c \in cows : AdminDeleteCowByTag(c.cow_tag)
  \/ \E nfiles \in 1..MaxFiles : VerifyBegin("mobile", nfiles)
  \/ \E probe \in Probes : MobileVerifyFile(probe)
  \/ \E probe \in Probes : LiveVerify(probe)
  \/ VerifyReturn

Spec == Init /\ [][Next]_vars

\* Registrations one after another, deletions, and the verifications of every
\* entry point, with the log rows the admin routes write.
NextVerify ==
  \/ \E photos \in PhotoSets : RegStart(1, photos)
  \/ RegCheck(1)
  \/ RegExtract(1)
  \/ RegFinish(1)
  \/ \E c \in cows : AdminDeleteCow(c.cow_id)
  \/ \E c \in cows : AdminDeleteCowByTag(c.cow_tag)
  \/ \E route \in {"mobile", "admin"}, nfiles \in 1..MaxFiles : VerifyBegin(route, nfiles)
  \/ \E probe \in Probes : MobileVerifyFile(probe)
  \/ \E probe \in Probes : AdminVerifyFile(probe)
  \/ \E probe \in Probes : LiveVerify(probe)
  \/ \E cow_tag \in TagInputs : MobileVerifyTag(cow_tag)
  \/ \E cow_tag \in TagInputs : AdminVerifyTag(cow_tag)
  \/ VerifyReturn

SpecVerify == Init /\ [][NextVerify]_vars

\* Registrations one after another whose images include ones the extractor
\* answers with a vector of the wrong length or with the zero vector.
NextExtractor ==
  \/ \E photos \in PhotoSets \cup OddPhotoSets : RegStart(1, photos)
  \/ RegCheck(1)
  \/ RegExtract(1)
  \/ RegFinish(1)

SpecExtractor == Init /\ [][NextExtractor]_vars

\* Registrations one after another, with the transfers, updates and deletions
\* of the cows they leave.
NextOwnership ==
  \/ \E photos \in PhotoSets : RegStart(1, photos)
  \/ RegCheck(1)
  \/ RegExtract(1)
  \/ RegFinish(1)
  \/ \E c \in cows, age \in Ages : AdminTransferOwnership(c.cow_id, age)
  \/ \E c \in cows, age \in Ages : AdminUpdateCowDetails(c.cow_id, age)
  \/ \E c \in cows : AdminDeleteCow(c.cow_id)
  \/ \E c \in cows : AdminDeleteCowByTag(c.cow_tag)

SpecOwnership == Init /\ [][NextOwnership]_vars

\* Registrations one after another, the admin verifications, which write the
\* verification log, and a deletion running beside them.
NextLogs ==
  \/ \E photos \in PhotoSets : RegStart(1, photos)
  \/ RegCheck(1)
  \/ RegExtract(1)
  \/ RegFinish(1)
  \/ \E nfiles \in 1..MaxFiles : VerifyBegin("admin", nfiles)
  \/ \E probe \in Probes : AdminVerifyFile(probe)
  \/ \E cow_tag \in TagInputs : AdminVerifyTag(cow_tag)
  \/ VerifyReturn
  \/ \E c \in cows : AdminDeleteCowLogs(c.cow_id)
  \/ AdminDeleteCowCommit

SpecLogs == Init /\ [][NextLogs]_vars

\* Registrations one after another: a single request in flight, and nothing
\* else touching the store.
NextSeq ==
  \/ \E photos \in PhotoSets : RegStart(1, photos)
  \/ RegCheck(1)
  \/ RegExtract(1)
  \/ RegFinish(1)

SpecSeq == Init /\ [][NextSeq]_vars

(* ------------------------ vocabulary of the claims ------------------- *)

MaxOf(S) == CHOOSE x \in S : \A y \in S : y <= x

EmbeddingsOf(cow_id) == { e \in embeddings : e.cow_id = cow_id }

\* The highest similarity of a picture to a set of embedding rows (0 for none).
TopSimilarity(img, rows) ==
  IF rows = {} THEN 0
  ELSE MaxOf({ Similarity(e.embedding, ExtractEmbedding(img)) : e \in rows })

\* Some picture of the request has a top-ranked match above 0.93 among rows.
Offends(photos, rows) ==
  \E i \in 1..Len(photos) : rows # {} /\ TopSimilarity(photos[i], rows) > 93

RequestCowExists(r) == \E c \in cows : c.cow_tag = reg[r].cow_tag

(* ------------------------------- claims ------------------------------ *)

\* Some vector of one request is more than 0.93 similar to some vector of
\* the other.
MutualDuplicates(photos1, photos2) ==
  \E i \in 1..Len(photos1), j \in 1..Len(photos2) :
    Similarity(ExtractEmbedding(photos1[i]), ExtractEmbedding(photos2[j])) > 93

\* C1: two concurrent registrations whose nose prints are mutual duplicates
\* (some pair of their vectors is more than 0.93 similar) never both succeed:
\* no state holds both new cows with their embeddings.
C1_NeverBothDuplicatesStored ==
  ~ \E r1 \in Procs, r2 \in Procs :
       /\ r1 # r2
       /\ reg[r1].pc = "done" /\ reg[r2].pc = "done"
       /\ MutualDuplicates(reg[r1].photos, reg[r2].photos)
       /\ \A r \in {r1, r2} :
            /\ \E c \in cows : c.cow_id = reg[r].cow_id
            /\ EmbeddingsOf(reg[r].cow_id) # {}

\* C2: with registrations run one after another, a request is rejected as a
\* duplicate, creating no cow, exactly when one of its pictures has a
\* top-ranked stored match strictly above 0.93: a rejected request has such a
\* picture, and a request that got past the duplicate check has none.
C2_DuplicateIffOffending ==
  \A r \in Procs :
    LET others == { e \in embeddings : reg[r].cow_id = NULL \/ e.cow_id # reg[r].cow_id }
    IN  /\ (reg[r].pc = "error" /\ reg[r].error = "duplicate")
             => (Offends(reg[r].photos, others) /\ ~RequestCowExists(r))
        /\ reg[r].pc \in {"extract", "facial", "done"}
             => ~Offends(reg[r].photos, others)
        /\ (reg[r].pc = "check" /\ reg[r].idx > 1)
             => ~Offends(SubSeq(reg[r].photos, 1, reg[r].idx - 1), others)

\* C2 witness: a request rejected as a duplicate although its first picture
\* matches nothing above 0.93 (a later picture is the offending one).
C2_Witness ==
  \E r \in Procs :
    /\ reg[r].pc = "error" /\ reg[r].error = "duplicate"
    /\ TopSimilarity(reg[r].photos[1], embeddings) <= 93
    /\ embeddings # {}

\* C3: a registration request that ended in an error has left no cow row and
\* no embedding rows of its own in the store.
C3_ErrorLeavesNothing ==
  \A r \in Procs :
    reg[r].pc = "error"
      => /\ ~RequestCowExists(r)
         /\ reg[r].cow_id # NULL => EmbeddingsOf(reg[r].cow_id) = {}

\* C4: in every state another request can observe, every cow row has exactly
\* 3 embedding records.
C4_EveryCowHasThreeEmbeddings ==
  \A c \in cows : Cardinality(EmbeddingsOf(c.cow_id)) = 3

(* --------------------- claims about verification --------------------- *)

\* This step is the decision of the named route on one probe image.
FileDecided(route) ==
  /\ vres'.route = route
  /\ vres'.status # "error"
  /\ IF route = "live"
     THEN ver.route = "none" /\ ver'.route = "live"
     ELSE ver.route = route /\ ver'.route = route /\ ver'.left = ver.left - 1

\* The best similarity of the decided probe to an embedding of cow c.
CowBest(c) == TopSimilarity(vres'.probe, EmbeddingsOf(c.cow_id))

\* The best similarity of the decided probe over every stored embedding.
StoreBest == TopSimilarity(vres'.probe, embeddings)

\* Two distinct cows score above 0.85 and the best of them leads the other by
\* at most 0.05.
TooCloseToCall ==
  \E c1 \in cows, c2 \in cows :
    /\ c1 # c2
    /\ \A c \in cows : CowBest(c) <= CowBest(c1)
    /\ CowBest(c2) > 85
    /\ CowBest(c1) - CowBest(c2) <= 5

\* Cow c1 scores above 0.85 and leads every other cow by more than 0.05.
ClearWinner(c1) ==
  /\ CowBest(c1) > 85
  /\ \A c2 \in cows \ {c1} : CowBest(c1) - CowBest(c2) > 5

\* Every stored embedding belongs to a cow row, and no two cows hold
\* embeddings more than 0.93 similar: a store that registrations run one after
\* another, without deletions, produce.
CleanStore ==
  /\ \A e \in embeddings : \E c \in cows : c.cow_id = e.cow_id
  /\ \A e1 \in embeddings, e2 \in embeddings :
       e1.cow_id # e2.cow_id => Similarity(e1.embedding, e2.embedding) <= 93

NamesNoCow(res) == ~res.cow_found /\ res.cow_id = NULL

\* C5: a mobile decision on a probe for which two distinct cows score above
\* 0.85 with the best leading by at most 0.05 is AMBIGUOUS and finds no cow.
C5_CloseCowsAreAmbiguous ==
  [][ (FileDecided("mobile") /\ TooCloseToCall)
        => (vres'.status = "AMBIGUOUS" /\ NamesNoCow(vres')) ]_vars

\* C5 witness: an AMBIGUOUS mobile result on a probe that two cows match above
\* 0.85, the better one only 0.02 ahead of the other.
C5_Witness ==
  /\ vres.route = "mobile" /\ vres.status = "AMBIGUOUS" /\ ~vres.cow_found
  /\ \E c1 \in cows, c2 \in cows :
       /\ c1 # c2
       /\ TopSimilarity(vres.probe, EmbeddingsOf(c1.cow_id)) = 90
       /\ TopSimilarity(vres.probe, EmbeddingsOf(c2.cow_id)) = 88

\* C6: a mobile decision on a probe whose best cow leads every other cow by
\* more than 0.05 is never AMBIGUOUS and names that cow, also when a second
\* embedding of the same cow is within 0.05 of the best.  (Stated for stores
\* without duplicate cows or ownerless embeddings.)
C6_GapIsAgainstAnotherCow ==
  [][ (FileDecided("mobile") /\ CleanStore)
        => \A c1 \in cows :
             ClearWinner(c1)
               => /\ vres'.status # "AMBIGUOUS"
                  /\ vres'.cow_found /\ vres'.cow_id = c1.cow_id ]_vars

\* The outcome of the four-outcome vocabulary that a response reports.
Outcome(res) ==
  CASE res.status \in {"VERIFIED", "yes", "verified"}   -> "VERIFIED"
    [] res.status \in {"partial"}                       -> "PARTIAL"
    [] res.status \in {"AMBIGUOUS"}                     -> "AMBIGUOUS"
    [] res.status \in {"NOT_FOUND", "no", "not_found"}  -> "NOT_FOUND"
    [] OTHER                                            -> "NONE"

StrictThreshold(route) == IF route = "mobile" THEN MOBILE_HIGH ELSE ADMIN_YES

\* C7 (as stated): a mobile or admin decision that names a cow reports
\* VERIFIED only above the strict threshold of its route (0.92 mobile, 0.90
\* admin) and PARTIAL when above 0.85 but not above the strict threshold.
C7_Original ==
  [][ \A route \in {"mobile", "admin"} :
        (FileDecided(route) /\ vres'.cow_found)
          => /\ Outcome(vres') = "VERIFIED"
                  => vres'.similarity > StrictThreshold(route)
             /\ (vres'.similarity > 85 /\ vres'.similarity <= StrictThreshold(route))
                  => Outcome(vres') = "PARTIAL" ]_vars

\* C7 (amended): on the admin route a named cow is reported "yes" exactly
\* when the best similarity is above 0.90 and "partial" when it is in
\* (0.85, 0.90]; on the mobile route every named cow is reported VERIFIED,
\* never PARTIAL, and 0.92 only separates confidence HIGH (above it) from
\* MEDIUM (in (0.85, 0.92]).
C7_StrictThresholdPerRoute ==
  [][ /\ (FileDecided("admin") /\ vres'.cow_found)
           => /\ vres'.similarity > 85
              /\ vres'.status = (IF vres'.similarity > 90 THEN "yes" ELSE "partial")
      /\ (FileDecided("mobile") /\ vres'.cow_found)
           => /\ vres'.similarity > 85
              /\ vres'.status = "VERIFIED"
              /\ vres'.confidence = (IF vres'.similarity > 92 THEN "HIGH" ELSE "MEDIUM") ]_vars

\* C7 witness: a mobile result naming a cow at similarity 0.90, reported
\* VERIFIED with confidence MEDIUM.
C7_Witness ==
  /\ vres.route = "mobile" /\ vres.cow_found
  /\ vres.similarity = 90
  /\ vres.status = "VERIFIED" /\ vres.confidence = "MEDIUM"

\* C8: every decision of the mobile, admin and live-camera routes is one of
\* NOT_FOUND, AMBIGUOUS, PARTIAL, VERIFIED, and none names a cow when two
\* distinct cows score above 0.85 within 0.05 of each other.  (Stated for
\* stores without duplicate cows or ownerless embeddings.)
C8_NoWinnerWhenClose ==
  [][ \A route \in {"mobile", "admin", "live"} :
        (FileDecided(route) /\ CleanStore)
          => /\ Outcome(vres') \in {"NOT_FOUND", "AMBIGUOUS", "PARTIAL", "VERIFIED"}
             /\ TooCloseToCall => NamesNoCow(vres') ]_vars

\* The cows scoring above 0.85 on the decided probe.
Qualifying == { c \in cows : CowBest(c) > 85 }

\* Cow c is among the top m qualifying cows whatever the order of ties.
AmongTop(c, m) ==
  Cardinality({ c2 \in Qualifying \ {c} : CowBest(c2) >= CowBest(c) }) < m

\* C9: the candidate list of an AMBIGUOUS result has at most 3 entries, no
\* cow twice, in descending order of similarity, and contains every one of the
\* top distinct cows above 0.85, up to 3.  (Stated for stores without
\* duplicate cows or ownerless embeddings.)
C9_CandidatesAreDistinctCows ==
  [][ (FileDecided("mobile") /\ CleanStore /\ vres'.status = "AMBIGUOUS")
        => LET cand == vres'.candidates
           IN  /\ Len(cand) <= 3
               /\ \A i \in 1..Len(cand), j \in 1..Len(cand) :
                    i # j => cand[i].cow_tag # cand[j].cow_tag
               /\ \A i \in 1..Len(cand), j \in 1..Len(cand) :
                    i < j => cand[i].similarity >= cand[j].similarity
               /\ \A c \in Qualifying :
                    AmongTop(c, Min(3, Cardinality(Qualifying)))
                      => \E i \in 1..Len(cand) : cand[i].cow_tag = c.cow_tag ]_vars

\* C10: on every route, a probe whose best similarity over the whole store is
\* at most 0.85 is reported NOT_FOUND and names no cow, and a probe whose best
\* similarity is above 0.85 is never reported NOT_FOUND.
C10_ThresholdDecidesNotFound ==
  [][ \A route \in {"mobile", "admin", "live"} :
        FileDecided(route)
          => /\ StoreBest <= 85
                  => (Outcome(vres') = "NOT_FOUND" /\ NamesNoCow(vres'))
             /\ StoreBest > 85 => Outcome(vres') # "NOT_FOUND" ]_vars

\* C11: on the mobile, admin and live-camera routes, a decision taken while
\* the store holds no embedding record is NOT_FOUND with similarity 0 and
\* names no cow.
C11_EmptyStoreIsNotFound ==
  [][ \A route \in {"mobile", "admin", "live"} :
        (FileDecided(route) /\ embeddings = {})
          => /\ Outcome(vres') = "NOT_FOUND"
             /\ vres'.similarity = 0
             /\ NamesNoCow(vres') ]_vars

\* C11 witness: a NOT_FOUND answer with similarity 0 of the mobile route while
\* a cow row exists but no embedding record does.
C11_Witness ==
  /\ embeddings = {} /\ cows # {}
  /\ vres.route = "mobile" /\ vres.status = "NOT_FOUND"
  /\ vres.similarity = 0 /\ ~vres.cow_found

\* C12: no embedding record outlives its cow: every stored embedding belongs
\* to a cow row of the store.
C12_DeleteRemovesEmbeddings ==
  \A e \in embeddings : \E c \in cows : c.cow_id = e.cow_id

\* The vectors a registration request holds or has stored are those the model
\* computes for its images, label by label.
GenuineVectors(r) ==
  /\ \A i \in 1..Len(reg[r].data) :
       reg[r].data[i].embedding = ExtractEmbedding(reg[r].photos[i])
  /\ reg[r].cow_id # NULL
       => \A e \in EmbeddingsOf(reg[r].cow_id) :
            \E i \in 1..Len(reg[r].photos) :
              /\ e.image_angle = REQUIRED_ANGLES[i]
              /\ e.embedding = ExtractEmbedding(reg[r].photos[i])

\* The embedding rows the query of a route reads.
RowsRead(route) == IF route = "live" THEN embeddings ELSE JoinedEmbeddings

C14_AbortLeavesNoLog ==
  [][ (ver.route = "admin" /\ vres'.route = "admin" /\ vres'.status = "error"
         /\ vres.route = "admin" /\ vres.cow_found)
        => /\ ver'.left = 0
           /\ \A i \in 1..Len(logs') : logs'[i] # AdminLog(vres) ]_vars

\* Image i of the request is an offender: its top-ranked stored match is above
\* 0.93.
Offender(r, i) == TopSimilarity(reg[r].photos[i], JoinedEmbeddings) > 93

\* C15: the duplicate check is fail-fast in image order: the step that checks
\* an offending image ends the request at once, a rejection as duplicate is
\* caused by the image being checked, and a request that has ended takes no
\* further step (only a new request replaces it).
C15_FailFast ==
  [][ \A r \in Procs :
        /\ (reg[r].pc = "check" /\ reg'[r] # reg[r])
             => /\ Offender(r, reg[r].idx) => reg'[r].pc = "error"
                /\ (reg'[r].pc = "error" /\ reg'[r].error = "duplicate")
                     => (Offender(r, reg[r].idx) /\ UNCHANGED storeVars)
        /\ (reg[r].pc = "error" /\ reg'[r] # reg[r])
             => reg'[r].owner_id # reg[r].owner_id ]_vars

\* C15 witness: a request rejected as a duplicate on its second image while
\* its third image is an offender too.
C15_Witness ==
  \E r \in Procs :
    /\ reg[r].pc = "error" /\ reg[r].error = "duplicate"
    /\ Len(reg[r].photos) = 3
    /\ ~Offender(r, 1) /\ Offender(r, 2) /\ Offender(r, 3)

\* C16: a registration checked against a store with no embedding record is
\* never rejected as a duplicate.
C16_EmptyStoreNeverDuplicate ==
  [][ \A r \in Procs :
        (reg[r].pc = "check" /\ embeddings = {})
          => ~(reg'[r].pc = "error" /\ reg'[r].error = "duplicate") ]_vars

\* C16 witness: a request whose 3 images passed the duplicate check while the
\* store holds no embedding record.
C16_Witness ==
  /\ embeddings = {}
  /\ \E r \in Procs : reg[r].pc = "extract" /\ Len(reg[r].photos) = 3

\* The cows the ranking may name as best match of query vector q.
BestCows(q) == { o[1].cow_id : o \in Ordered(JoinedRows(q)) \ { <<>> } }

\* C17: the ranking of a query vector against a store has one result, rows
\* of equal similarity coming in order of their record id; in particular the
\* cow named as best match is the same on every execution, also when two
\* cows tie for the top similarity.
C17_SameBestCowOnTies ==
  \A p \in Probes : Cardinality(BestCows(Vec[p])) <= 1

ZeroVector == [ i \in 1..Dim |-> 0 ]

\* C19: a zero-norm vector is never stored and never used as a query: a
\* request in which the extractor yields one is rejected at that image.
C19_ZeroVectorRejected ==
  /\ \A e \in embeddings : e.embedding # ZeroVector
  /\ \A r \in Procs : \A i \in 1..Len(reg[r].photos) :
       ExtractEmbedding(reg[r].photos[i]) = ZeroVector
         => /\ reg[r].pc \in {"check", "error"}
            /\ reg[r].pc = "check" => reg[r].idx <= i

\* A step of a verification request: of the nose routes, the live camera or
\* a tag route (which, for the admin, writes a log row).
VerificationStep == ver' # ver \/ vres' # vres \/ Len(logs') > Len(logs)

\* C20: no verification adds, changes or removes a cow row or an embedding
\* record, whatever its outcome.
C20_VerificationLeavesStore ==
  [][ VerificationStep => (cows' = cows /\ embeddings' = embeddings) ]_vars

\* C20 witness: a live verification has matched a cow that is in the store
\* with its embeddings.
C20_Witness ==
  /\ vres.route = "live"
  /\ vres.cow_found
  /\ \E c \in cows : c.cow_id = vres.cow_id
  /\ EmbeddingsOf(vres.cow_id) # {}

\* C21: an embedding record, once written, is never changed by a later
\* operation; it only disappears, and then together with its cow.
C21_EmbeddingsImmutable ==
  [][ \A e \in embeddings :
        \/ e \in embeddings'
        \/ /\ \A f \in embeddings' : f.embedding_id # e.embedding_id
           /\ \A c \in cows' : c.cow_id # e.cow_id ]_vars

\* The cows a step deletes.
DeletedCows == { c.cow_id : c \in cows } \ { c.cow_id : c \in cows' }

\* What a step must leave of the log: every entry but those of the cows it
\* deletes, unchanged and in order.
KeptLogs == SelectSeq(logs, LAMBDA l : l.cow_id \notin DeletedCows)

\* C22: the verification log is append-only: a step that deletes no cow
\* leaves every entry as it is and at most appends, and a step that deletes
\* a cow removes the entries of that cow and no other, changing none.
C22_LogsAppendOnly ==
  [][ IF DeletedCows = {}
      THEN Len(logs') >= Len(logs) /\ SubSeq(logs', 1, Len(logs)) = logs
      ELSE logs' = KeptLogs ]_vars

\* C23: a request that does not carry exactly 3 nose-print images is
\* rejected before anything is written: it leaves no owner row and no cow
\* row of its own.
C23_CountValidatedFirst ==
  \A r \in Procs :
    (reg[r].pc = "error" /\ Len(reg[r].photos) # MIN_IMAGES)
      => /\ reg[r].error = "image_count"
         /\ reg[r].owner_id \notin owners
         /\ ~RequestCowExists(r)

\* The embedding records of a cow that are flagged primary.
PrimaryOf(cow_id) == { e \in EmbeddingsOf(cow_id) : e.is_primary = "yes" }

\* C24: a registered cow has exactly one embedding record flagged primary,
\* the one built from the first image of its request, the other two being
\* flagged "no"; and no later step changes the flag of a record.
C24_OnePrimaryFirstImage ==
  /\ [](\A c \in cows :
          EmbeddingsOf(c.cow_id) # {}
            => /\ Cardinality(PrimaryOf(c.cow_id)) = 1
               /\ Cardinality(EmbeddingsOf(c.cow_id) \ PrimaryOf(c.cow_id)) = 2
               /\ \A e \in PrimaryOf(c.cow_id) : e.image_angle = REQUIRED_ANGLES[1])
  /\ [](\A r \in Procs :
          reg[r].pc = "done"
            => \A e \in PrimaryOf(reg[r].cow_id) :
                 e.embedding = ExtractEmbedding(reg[r].photos[1]))
  /\ [][ \A e \in embeddings : \A f \in embeddings' :
           f.embedding_id = e.embedding_id => f.is_primary = e.is_primary ]_vars

\* C24 witness: a registration has succeeded and its cow, since transferred
\* to another owner, has its primary record.
C24_Witness ==
  \E r \in Procs : \E c \in cows :
    /\ reg[r].pc = "done"
    /\ c.cow_id = reg[r].cow_id
    /\ c.ownership_status = "transferred"
    /\ Cardinality(PrimaryOf(c.cow_id)) = 1

\* C25: the embedding inserts of a registration are all-or-nothing: in every
\* state, which is what a concurrent reader can observe, the number of
\* embedding records of a cow id that was handed out is 0 or 3.
C25_EmbeddingsAllOrNothing ==
  \A cow_id \in 1..(nextCow - 1) :
    Cardinality(EmbeddingsOf(cow_id)) \in {0, MIN_IMAGES}

\* C25 witness: one registration failed at the embedding insert and left its
\* cow row without a record, while another cow has its 3 records.
C25_Witness ==
  /\ \E r \in Procs :
       /\ reg[r].pc = "error" /\ reg[r].error = "embedding_insert"
       /\ RequestCowExists(r)
       /\ EmbeddingsOf(reg[r].cow_id) = {}
  /\ \E c \in cows : Cardinality(EmbeddingsOf(c.cow_id)) = MIN_IMAGES

\* C26: every nose-print verification of an image, on the mobile and on the
\* admin route and whatever its outcome, appends exactly one log entry with
\* the similarity, the cow reference being NULL when no cow is matched.
C26_EveryAttemptLogged ==
  [][ (FileDecided("mobile") \/ FileDecided("admin"))
        => /\ Len(logs') = Len(logs) + 1
           /\ SubSeq(logs', 1, Len(logs)) = logs
           /\ logs'[Len(logs')].similarity_score = vres'.similarity
           /\ logs'[Len(logs')].cow_id
                = (IF vres'.cow_found THEN vres'.cow_id ELSE NULL) ]_vars

\* C27: each image of a registration is turned into a vector once, so that
\* the vectors kept for the insert are those that passed the duplicate check
\* and no extractor failure can end a request that has passed the check.
C27_ExtractedOnce ==
  [][ \A r \in Procs :
        reg[r].pc = "extract"
          => /\ ~(reg'[r].pc = "error" /\ reg'[r].error = "extraction")
             /\ \A i \in 1..Len(reg'[r].data) :
                  reg'[r].data[i].embedding = ExtractEmbedding(reg[r].photos[i]) ]_vars

\* C28: when no registration is in flight, every owner row is the owner, or
\* is recorded as the previous owner, of some cow in the store.
C28_NoOwnerWithoutCow ==
  (\A r \in Procs : ~Active(r))
    => \A o \in owners :
         \E c \in cows : c.owner_id = o \/ c.previous_owner_id = o

\* C29: a cow is "transferred" exactly when its previous_owner_id and its
\* transfer_date are set; a transfer records the owner held just before it
\* and leaves tag and embeddings of the cow alone; and a transferred cow
\* never becomes "original" again.
C29_TransferredStatus ==
  /\ [](\A c \in cows :
          /\ c.ownership_status \in {"original", "transferred"}
          /\ c.ownership_status = "transferred"
               <=> (c.previous_owner_id # NULL /\ c.transfer_date # NULL))
  /\ [][ \A c \in cows : \A d \in cows' :
           d.cow_id = c.cow_id
             => /\ d.cow_tag = c.cow_tag
                /\ c.ownership_status = "transferred"
                     => d.ownership_status = "transferred"
                /\ d.owner_id # c.owner_id
                     => /\ d.previous_owner_id = c.owner_id
                        /\ d.ownership_status = "transferred"
                        /\ embeddings' = embeddings ]_vars

\* C29 witness: a registered cow with its 3 embeddings has been transferred
\* twice: its previous owner is not the owner it was registered with.
C29_Witness ==
  \E r \in Procs : \E c \in cows :
    /\ reg[r].pc = "done"
    /\ c.cow_id = reg[r].cow_id
    /\ c.ownership_status = "transferred"
    /\ c.previous_owner_id \notin {NULL, reg[r].owner_id}
    /\ Cardinality(EmbeddingsOf(c.cow_id)) = MIN_IMAGES

\* C30: no two cows hold the same cow_tag, also under concurrent
\* registrations, and the tag a request is given at its start is held by no
\* cow of the store.
C30_UniqueTags ==
  /\ [](\A c \in cows : \A d \in cows : c.cow_tag = d.cow_tag => c = d)
  /\ [][ \A r \in Procs :
           (started' = started + 1 /\ reg'[r] # reg[r])
             => \A c \in cows : c.cow_tag # reg'[r].cow_tag ]_vars

\* C30 witness: two requests in flight together have both inserted their cow
\* row.
C30_Witness ==
  /\ reg[1].pc = "facial" /\ reg[2].pc = "facial"
  /\ \E c \in cows : \E d \in cows :
       /\ c.cow_id = reg[1].cow_id /\ d.cow_id = reg[2].cow_id
       /\ c.cow_tag # d.cow_tag

====
